---- MODULE Spec2Model ----
(***************************************************************************)
(* Model of the WhatsApp summarizer: the preprocessor                      *)
(* (core/preprocess.py), the chunker, the JSON recovery layer and the      *)
(* map/reduce driver (core/summarizer.py).                                 *)
(*                                                                         *)
(* A Python str is a sequence of one-character strings; Python's 0-based   *)
(* positions are kept, so s[p] in the source is s[p+1] here.               *)
(***************************************************************************)
EXTENDS Integers, Sequences, FiniteSets, TLC

(***************************************************************************)
(* Program constants and the bounds of the model.                          *)
(***************************************************************************)
\* summarizer.py:63, the 1000 of `cut <= start + 1000`
MinCutOffset == 1000
\* summarizer.py:108, `_chunk_text(clean_text, max_chars=9000)`
ChunkMaxChars == 9000

\* a chunker input is made of at most MaxTokens tokens
MaxTokens == 4
\* max_chars ranges over 1..MaxSmall and MinCutOffset+1..MinCutOffset+MaxSmall+1
MaxSmall == 2
\* a model output is at most MaxOutLen characters over OutChars
MaxOutLen == 5
\* a text to summarize is made of at most MaxSumTokens tokens
MaxSumTokens == 4
\* a raw chat is at most MaxLines lines, each one of PreLines
MaxLines == 3
\* keep_last_lines ranges over 0..MaxKeep
MaxKeep == 2

(***************************************************************************)
(* Python built-ins on strings and lists.                                  *)
(***************************************************************************)
NL == "\n"

Max(S) == CHOOSE x \in S : \A y \in S : y <= x

\* min(a, b)
Min2(a, b) == IF a <= b THEN a ELSE b

\* s[lo:hi] for 0 <= lo <= hi <= len(s)
Slice(s, lo, hi) == SubSeq(s, lo + 1, hi)

\* s.rfind(ch, lo, hi): the highest position in [lo, hi) holding ch, else -1
rfind(s, ch, lo, hi) ==
  LET S == {p \in lo..(hi - 1) : s[p + 1] = ch}
  IN  IF S = {} THEN -1 ELSE Max(S)

\* "".join(ss) over the positions lo..hi of ss
RECURSIVE ConcatRange(_, _, _)
ConcatRange(ss, lo, hi) ==
  IF lo > hi THEN <<>>
  ELSE IF lo = hi THEN ss[lo]
  ELSE LET mid == (lo + hi) \div 2
       IN  ConcatRange(ss, lo, mid) \o ConcatRange(ss, mid + 1, hi)

Concat(ss) == ConcatRange(ss, 1, Len(ss))

Min(S) == CHOOSE x \in S : \A y \in S : x <= y

\* the characters str.strip() removes and \s matches
Whitespace == {" ", "\t", "\n", "\r", "\f"}

\* the characters the json module skips around a value
JsonWhitespace == {" ", "\t", "\n", "\r"}

Digits == {"0", "1", "2", "3", "4", "5", "6", "7", "8", "9"}

\* s with the leading and trailing characters of ws removed
StripChars(s, ws) ==
  LET keep == {p \in 1..Len(s) : s[p] \notin ws}
  IN  IF keep = {} THEN <<>> ELSE SubSeq(s, Min(keep), Max(keep))

\* s.strip()
strip(s) == StripChars(s, Whitespace)

DigitVal(c) == CHOOSE d \in 0..9 : <<"0", "1", "2", "3", "4", "5", "6", "7", "8", "9">>[d + 1] = c

\* int(s) for a string of digits
RECURSIVE DecimalValue(_)
DecimalValue(s) ==
  IF s = <<>> THEN 0
  ELSE 10 * DecimalValue(SubSeq(s, 1, Len(s) - 1)) + DigitVal(s[Len(s)])

\* str(n) for n >= 0
DigitChar(d) == <<"0", "1", "2", "3", "4", "5", "6", "7", "8", "9">>[d + 1]

RECURSIVE DecimalDigits(_)
DecimalDigits(n) ==
  IF n < 10 THEN <<DigitChar(n)>> ELSE DecimalDigits(n \div 10) \o <<DigitChar(n % 10)>>

(***************************************************************************)
(* Inputs of the chunker: strings over {a, newline} written as tokens, a   *)
(* token being one character or a run of MinCutOffset letters, so that a   *)
(* newline can lie on either side of start + 1000.                         *)
(***************************************************************************)
Run == [k \in 1..MinCutOffset |-> "a"]

\* half a chunk of the summarizer
BigRun == [k \in 1..(ChunkMaxChars \div 2) |-> "a"]

Tok(t) == IF t = "RUN" THEN Run ELSE IF t = "BIG" THEN BigRun ELSE <<t>>

RECURSIVE Expand(_)
Expand(ts) == IF ts = <<>> THEN <<>> ELSE Tok(Head(ts)) \o Expand(Tail(ts))

ChunkTexts == {Expand(ts) : ts \in UNION {[1..k -> {"a", NL, "RUN"}] : k \in 0..MaxTokens}}

MaxCharsChoices == (1..MaxSmall) \cup {MinCutOffset + k : k \in 1..(MaxSmall + 1)}

VARIABLES
  \* _chunk_text: arguments, locals and position
  text, max_chars, start, end, cut, chunks, pc,
  \* the environment: whether OPENAI_API_KEY is set to a non-empty value
  api_key,
  \* _call_openai_json alone: what the provider does, the outcome, position
  response, ret, json_pc,
  \* summarize_whatsapp_hybrid: argument, locals, the calls that reached the
  \* provider (with what it answered), the outcome and position
  clean_text, sum_chunks, i, chunk_summaries, calls, final, error, sum_pc,
  \* clean_whatsapp_text: arguments, locals, the (text, stats) it returned,
  \* what a second run on that text returned, and position
  raw_text, keep_last_lines, remove_system, remove_attachments, pii_mask,
  lines, cleaned, out_text, stats, again, pre_pc

chunkVars == <<text, max_chars, start, end, cut, chunks, pc>>

jsonVars == <<response, ret, json_pc>>

sumVars == <<clean_text, sum_chunks, i, chunk_summaries, calls, final, error, sum_pc>>

preArgs == <<raw_text, keep_last_lines, remove_system, remove_attachments, pii_mask>>

preVars == <<preArgs, lines, cleaned, out_text, stats, again, pre_pc>>

vars == <<chunkVars, api_key, jsonVars, sumVars, preVars>>

(***************************************************************************)
(* _chunk_text (summarizer.py:51-68), one loop iteration per step.         *)
(***************************************************************************)
\* line 61 with a window one character too long
WindowEndOffByOne(t, s, m) == Min2(s + m + 1, Len(t))

\* line 61
WindowEnd(t, s, m) == Min2(s + m, Len(t))

\* lines 62-64 with `cut < start + 1000`
CutLe(t, s, m) ==
  LET e == WindowEnd(t, s, m)
      c == rfind(t, NL, s, e)
  IN  IF c = -1 \/ c < s + MinCutOffset THEN e ELSE c

\* lines 62-64 without the guard on a newline too close to start
CutNoGuard(t, s, m) ==
  LET e == WindowEnd(t, s, m)
      c == rfind(t, NL, s, e)
  IN  IF c = -1 THEN e ELSE c

\* lines 62-64
CutAt(t, s, m) ==
  LET e == WindowEnd(t, s, m)
      c == rfind(t, NL, s, e)
  IN  IF c = -1 \/ c <= s + MinCutOffset THEN e ELSE c

\* line 65 with the newline of the cut left out of the next chunk
ChunkDropNewline(t, s, c) == IF s > 0 /\ t[s + 1] = NL THEN Slice(t, s + 1, c) ELSE Slice(t, s, c)

\* line 65
ChunkAt(t, s, c) == Slice(t, s, c)


(***************************************************************************)
(* Values and exceptions.  A parsed JSON value is an int or a dict; an     *)
(* exception carries its type, its fixed message, the text its message     *)
(* quotes (txt: <<t>> or <<>> for none) and, for a JSONDecodeError, its    *)
(* doc attribute (<<d>>).                                                  *)
(***************************************************************************)
NoValue == [type |-> "none", val |-> 0]

NoError == [type |-> "none", msg |-> "", txt |-> <<>>, doc |-> <<>>]

Return(v) == [ok |-> TRUE, value |-> v, error |-> NoError]

Raise(e) == [ok |-> FALSE, value |-> NoValue, error |-> e]

\* summarizer.py:47
RuntimeErrorNoKey ==
  [type |-> "RuntimeError", msg |-> "OPENAI_API_KEY is not set.", txt |-> <<>>, doc |-> <<>>]

\* summarizer.py:92 without the text in the message
ValueErrorNoText(txt) ==
  [type |-> "ValueError", msg |-> "Model did not return valid JSON:\n", txt |-> <<>>, doc |-> <<>>]

\* summarizer.py:92
ValueErrorNotJson(txt) ==
  [type |-> "ValueError", msg |-> "Model did not return valid JSON:\n", txt |-> <<txt>>, doc |-> <<>>]

\* raised by json.loads (summarizer.py:87, 91)
JSONDecodeError(doc) ==
  [type |-> "JSONDecodeError", msg |-> "", txt |-> <<>>, doc |-> <<doc>>]

\* raised by client.chat.completions.create (summarizer.py:74)
APIConnectionError ==
  [type |-> "APIConnectionError", msg |-> "Connection error.", txt |-> <<>>, doc |-> <<>>]

\* raised by None.strip() (summarizer.py:83)
AttributeError ==
  [type |-> "AttributeError", msg |-> "'NoneType' object has no attribute 'strip'",
   txt |-> <<>>, doc |-> <<>>]

(***************************************************************************)
(* json.loads and json.dumps on the texts of the model.  A model output is *)
(* a string over OutChars, which holds no quote, bracket or sign: the JSON *)
(* documents among them are the numbers and the empty object, with JSON    *)
(* whitespace around them and between the braces.                          *)
(***************************************************************************)
OutChars == {"{", "}", "1", "x", " ", NL}

IsJsonNumber(t) ==
  /\ t # <<>>
  /\ \A p \in 1..Len(t) : t[p] \in Digits
  /\ Len(t) = 1 \/ t[1] # "0"

IsJsonEmptyObject(t) ==
  /\ Len(t) >= 2
  /\ t[1] = "{"
  /\ t[Len(t)] = "}"
  /\ \A p \in 2..(Len(t) - 1) : t[p] \in JsonWhitespace

\* json.loads(s)
json_loads(s) ==
  LET t == StripChars(s, JsonWhitespace)
  IN  IF IsJsonNumber(t) THEN Return([type |-> "int", val |-> DecimalValue(t)])
      ELSE IF IsJsonEmptyObject(t) THEN Return([type |-> "dict", val |-> 0])
      ELSE Raise(JSONDecodeError(s))

\* json.dumps(v) of a parsed value
DumpValue(v) == IF v.type = "int" THEN DecimalDigits(v.val) ELSE <<"{", "}">>

\* ", ".join(json.dumps(v) for v in vs[k:])
RECURSIVE DumpItems(_, _)
DumpItems(vs, k) ==
  IF k > Len(vs) THEN <<>>
  ELSE IF k = Len(vs) THEN DumpValue(vs[k])
  ELSE DumpValue(vs[k]) \o <<",", " ">> \o DumpItems(vs, k + 1)

\* json.dumps({"chunk_summaries": vs}, ensure_ascii=False)  (summarizer.py:123)
DumpChunkSummaries(vs) ==
  <<"{", "\"", "c", "h", "u", "n", "k", "_", "s", "u", "m", "m", "a", "r", "i", "e", "s",
    "\"", ":", " ", "[">> \o DumpItems(vs, 1) \o <<"]", "}">>

(***************************************************************************)
(* _call_openai_json (summarizer.py:71-92).  The provider either fails,    *)
(* answers with no content, or answers with a text.                        *)
(***************************************************************************)
Unreachable == [kind |-> "unreachable", content |-> <<>>]

NoContent == [kind |-> "none", content |-> <<>>]

Content(t) == [kind |-> "text", content |-> t]

\* re.search(r"\{.*\}", txt, flags=re.S): with re.S the dot matches a newline
\* too, so the match is the span from the first "{" to the last "}" after it
HasBraceSpan(txt) ==
  \E f \in 1..Len(txt) : \E l \in (f + 1)..Len(txt) : txt[f] = "{" /\ txt[l] = "}"

BraceSpan(txt) ==
  SubSeq(txt, Min({p \in 1..Len(txt) : txt[p] = "{"}), Max({p \in 1..Len(txt) : txt[p] = "}"}))

\* lines 83-92
ParseModelOutput(content) ==
  LET txt == strip(content)
      direct == json_loads(txt)
  IN  IF direct.ok THEN direct
      ELSE IF HasBraceSpan(txt) THEN json_loads(BraceSpan(txt))
      ELSE Raise(ValueErrorNotJson(txt))

\* lines 72-92; key: OPENAI_API_KEY is set, resp: what the provider does
call_openai_json(key, resp) ==
  IF ~key THEN Raise(RuntimeErrorNoKey)
  ELSE IF resp.kind = "unreachable" THEN Raise(APIConnectionError)
  ELSE IF resp.kind = "none" THEN Raise(AttributeError)
  ELSE ParseModelOutput(resp.content)


(***************************************************************************)
(* summarize_whatsapp_hybrid (summarizer.py:95-125).                       *)
(***************************************************************************)
\* _chunk_text as a function: the loop of lines 60-66 from position s on
RECURSIVE ChunkFrom(_, _, _)
ChunkFrom(t, s, m) ==
  IF ~(s < Len(t)) THEN <<>>
  ELSE LET c == CutAt(t, s, m)
       IN  <<ChunkAt(t, s, c)>> \o ChunkFrom(t, c, m)

\* lines 55-68
chunk_text(t, m) == IF Len(t) <= m THEN <<t>> ELSE ChunkFrom(t, 0, m)

\* the request context handed over by app.py
Ctx == [person_name |-> "Unknown", purpose |-> "Catch up", tone |-> "Warm",
        channel |-> "WhatsApp", model |-> "gpt-4.1-mini"]

\* lines 112-120: the parts the f-string puts into the chunk's user message
MapPayload(k, n, ch) ==
  [person_name |-> Ctx.person_name, purpose |-> Ctx.purpose, tone |-> Ctx.tone,
   channel |-> Ctx.channel, i |-> k, n |-> n, ch |-> ch]

\* a call that reached the provider (lines 74-81), with what it answered
ProviderCall(system_prompt, user_content, resp) ==
  [system_prompt |-> system_prompt, user_content |-> user_content,
   model |-> Ctx.model, response |-> resp]

\* line 121 with the summary put first
AccumulateFront(summaries, v) == <<v>> \o summaries

\* line 121: chunk_summaries.append(...)
Accumulate(summaries, v) == Append(summaries, v)

SumTexts == {Expand(ts) : ts \in UNION {[1..k -> {"a", NL, "BIG"}] : k \in 0..MaxSumTokens}}

\* what the provider may do on one call: fail, answer nothing, answer JSON,
\* JSON inside prose, prose, or prose around braces that hold no JSON
SumResponses ==
  { Unreachable, NoContent,
    Content(<<"{", "}">>), Content(<<"1">>), Content(<<"x", " ", "{", "}", NL>>),
    Content(<<"x">>), Content(<<"x", "{", "x", "}">>) }


(***************************************************************************)
(* core/preprocess.py: the phrase lists, mask_pii and clean_whatsapp_text. *)
(***************************************************************************)
\* preprocess.py:4-16
SYSTEM_NOISE_PHRASES ==
  { <<"M", "e", "s", "s", "a", "g", "e", "s", " ", "a", "n", "d", " ", "c", "a", "l", "l", "s", " ", "a", "r", "e", " ", "e", "n", "d", "-", "t", "o", "-", "e", "n", "d", " ", "e", "n", "c", "r", "y", "p", "t", "e", "d">>,
    <<"Y", "o", "u", " ", "c", "h", "a", "n", "g", "e", "d", " ", "y", "o", "u", "r", " ", "p", "h", "o", "n", "e", " ", "n", "u", "m", "b", "e", "r">>,
    <<"j", "o", "i", "n", "e", "d", " ", "u", "s", "i", "n", "g", " ", "t", "h", "i", "s", " ", "g", "r", "o", "u", "p", "'", "s", " ", "i", "n", "v", "i", "t", "e", " ", "l", "i", "n", "k">>,
    <<"c", "r", "e", "a", "t", "e", "d", " ", "g", "r", "o", "u", "p">>,
    <<"a", "d", "d", "e", "d">>,
    <<"l", "e", "f", "t">>,
    <<"c", "h", "a", "n", "g", "e", "d", " ", "t", "h", "e", " ", "s", "u", "b", "j", "e", "c", "t">>,
    <<"c", "h", "a", "n", "g", "e", "d", " ", "t", "h", "i", "s", " ", "g", "r", "o", "u", "p", "'", "s", " ", "i", "c", "o", "n">>,
    <<"T", "h", "i", "s", " ", "m", "e", "s", "s", "a", "g", "e", " ", "w", "a", "s", " ", "d", "e", "l", "e", "t", "e", "d">>,
    <<"M", "i", "s", "s", "e", "d", " ", "v", "o", "i", "c", "e", " ", "c", "a", "l", "l">>,
    <<"M", "i", "s", "s", "e", "d", " ", "v", "i", "d", "e", "o", " ", "c", "a", "l", "l">> }

\* preprocess.py:18-27
ATTACHMENT_MARKERS ==
  { <<"<", "M", "e", "d", "i", "a", " ", "o", "m", "i", "t", "t", "e", "d", ">">>,
    <<"i", "m", "a", "g", "e", " ", "o", "m", "i", "t", "t", "e", "d">>,
    <<"v", "i", "d", "e", "o", " ", "o", "m", "i", "t", "t", "e", "d">>,
    <<"G", "I", "F", " ", "o", "m", "i", "t", "t", "e", "d">>,
    <<"a", "u", "d", "i", "o", " ", "o", "m", "i", "t", "t", "e", "d">>,
    <<"d", "o", "c", "u", "m", "e", "n", "t", " ", "o", "m", "i", "t", "t", "e", "d">>,
    <<"s", "t", "i", "c", "k", "e", "r", " ", "o", "m", "i", "t", "t", "e", "d">>,
    <<"a", "t", "t", "a", "c", "h", "e", "d">> }

UpperLetters == <<"A", "B", "C", "D", "E", "F", "G", "H", "I", "J", "K", "L", "M", "N", "O", "P", "Q", "R", "S", "T", "U", "V", "W", "X", "Y", "Z">>

LowerLetters == <<"a", "b", "c", "d", "e", "f", "g", "h", "i", "j", "k", "l", "m", "n", "o", "p", "q", "r", "s", "t", "u", "v", "w", "x", "y", "z">>

Letters == {UpperLetters[k] : k \in 1..26} \cup {LowerLetters[k] : k \in 1..26}

\* the lower-case letter of each upper-case letter
LowerOf ==
  [c \in {UpperLetters[k] : k \in 1..26} |->
     LowerLetters[CHOOSE k \in 1..26 : UpperLetters[k] = c]]

\* c.lower() for one character
LowerChar(c) == IF c \in DOMAIN LowerOf THEN LowerOf[c] ELSE c

\* s.lower()
lower(s) == [k \in 1..Len(s) |-> LowerChar(s[k])]

\* p in s
Contains(s, p) == \E k \in 0..(Len(s) - Len(p)) : SubSeq(s, k + 1, k + Len(p)) = p

\* s.splitlines(), for the line boundaries "\n", "\r" and "\r\n"
RECURSIVE splitlines(_)
splitlines(s) ==
  LET brk == {p \in 1..Len(s) : s[p] \in {"\n", "\r"}}
  IN  IF s = <<>> THEN <<>>
      ELSE IF brk = {} THEN <<s>>
      ELSE LET p == Min(brk)
               q == IF s[p] = "\r" /\ p < Len(s) /\ s[p + 1] = "\n" THEN p + 1 ELSE p
           IN  <<SubSeq(s, 1, p - 1)>> \o splitlines(SubSeq(s, q + 1, Len(s)))

\* "\n".join(ls[k:])
RECURSIVE JoinFrom(_, _)
JoinFrom(ls, k) ==
  IF k > Len(ls) THEN <<>>
  ELSE IF k = Len(ls) THEN ls[k]
  ELSE ls[k] \o <<NL>> \o JoinFrom(ls, k + 1)

JoinLines(ls) == JoinFrom(ls, 1)

\* ls[-n:] for n > 0
LastN(ls, n) == SubSeq(ls, IF Len(ls) > n THEN Len(ls) - n + 1 ELSE 1, Len(ls))

\* the regular expressions' classes: \w, [\w\.-], \d and [\d\s\-\(\)]
WordChars == Letters \cup Digits \cup {"_"}

EmailChars == WordChars \cup {".", "-"}

PhoneChars == Digits \cup Whitespace \cup {"-", "(", ")"}

\* the last position of the run of characters of cls that starts at p (p - 1
\* when s[p] is not in cls)
RunEnd(s, p, cls) ==
  LET stop == {q \in p..Len(s) : s[q] \notin cls}
  IN  IF stop = {} THEN Len(s) ELSE Min(stop) - 1

\* where re matches [\w\.-]+@[\w\.-]+\.\w+ from position p on: the last
\* position of the match, 0 when there is none. The first group runs up to the
\* "@"; the second, greedy, gives back up to the last "." that a \w follows.
EmailEnd(s, p) ==
  LET a == RunEnd(s, p, EmailChars)
      r == RunEnd(s, a + 2, EmailChars)
      dots == {d \in (a + 3)..(r - 1) : s[d] = "." /\ s[d + 1] \in WordChars}
  IN  IF a >= p /\ a < Len(s) /\ s[a + 1] = "@" /\ dots # {}
        THEN RunEnd(s, Max(dots) + 1, WordChars)
        ELSE 0

\* where re matches \+?\d[\d\s\-\(\)]{7,}\d from position p on: the last
\* position of the match, 0 when there is none. The class, greedy, gives back
\* up to the last digit that at least 7 of its characters precede.
PhoneEnd(s, p) ==
  LET j == IF s[p] = "+" THEN p + 1 ELSE p
      r == RunEnd(s, j + 1, PhoneChars)
      last == {q \in (j + 8)..r : s[q] \in Digits}
  IN  IF j <= Len(s) /\ s[j] \in Digits /\ last # {} THEN Max(last) ELSE 0

EMAIL == <<"[", "E", "M", "A", "I", "L", "]">>

PHONE == <<"[", "P", "H", "O", "N", "E", "]">>

\* re.sub(r"[\w\.-]+@[\w\.-]+\.\w+", "[EMAIL]", s)  (line 33)
RECURSIVE SubEmail(_)
SubEmail(s) ==
  LET at == {p \in 1..Len(s) : EmailEnd(s, p) > 0}
  IN  IF at = {} THEN s
      ELSE LET p == Min(at)
           IN  SubSeq(s, 1, p - 1) \o EMAIL \o SubEmail(SubSeq(s, EmailEnd(s, p) + 1, Len(s)))

\* re.sub(r"\+?\d[\d\s\-\(\)]{7,}\d", "[PHONE]", s)  (line 34)
RECURSIVE SubPhone(_)
SubPhone(s) ==
  LET at == {p \in 1..Len(s) : PhoneEnd(s, p) > 0}
  IN  IF at = {} THEN s
      ELSE LET p == Min(at)
           IN  SubSeq(s, 1, p - 1) \o PHONE \o SubPhone(SubSeq(s, PhoneEnd(s, p) + 1, Len(s)))

\* lines 29-35
mask_pii(s) == SubPhone(SubEmail(s))

\* p.lower() for p in SYSTEM_NOISE_PHRASES, m.lower() for m in ATTACHMENT_MARKERS
SystemNoiseLower == {lower(p) : p \in SYSTEM_NOISE_PHRASES}

AttachmentLower == {lower(m) : m \in ATTACHMENT_MARKERS}

\* line 64: any(p.lower() in s.lower() for p in SYSTEM_NOISE_PHRASES)
IsSystemNoise(s) ==
  LET low == lower(s)
  IN  \E p \in SystemNoiseLower : Contains(low, p)

\* line 68: any(m.lower() in s.lower() for m in ATTACHMENT_MARKERS)
IsAttachment(s) ==
  LET low == lower(s)
  IN  \E m \in AttachmentLower : Contains(low, m)

\* the loop of lines 57-72 with a blank line counted as removed
RECURSIVE FilterCountBlank(_, _, _, _)
FilterCountBlank(ls, k, rs, ra) ==
  IF k > Len(ls) THEN [cleaned |-> <<>>, removed |-> 0]
  ELSE LET s == strip(ls[k])
           rest == FilterCountBlank(ls, k + 1, rs, ra)
       IN  IF s = <<>> \/ (rs /\ IsSystemNoise(s)) \/ (ra /\ IsAttachment(s))
             THEN [cleaned |-> rest.cleaned, removed |-> rest.removed + 1]
             ELSE [cleaned |-> <<s>> \o rest.cleaned, removed |-> rest.removed]

\* the loop of lines 57-72 without the `continue` of line 66
RECURSIVE FilterNoContinue(_, _, _, _)
FilterNoContinue(ls, k, rs, ra) ==
  IF k > Len(ls) THEN [cleaned |-> <<>>, removed |-> 0]
  ELSE LET s == strip(ls[k])
           rest == FilterNoContinue(ls, k + 1, rs, ra)
           sys == IF rs /\ IsSystemNoise(s) THEN 1 ELSE 0
       IN  IF s = <<>> THEN rest
           ELSE IF ra /\ IsAttachment(s)
             THEN [cleaned |-> rest.cleaned, removed |-> rest.removed + sys + 1]
             ELSE [cleaned |-> <<s>> \o rest.cleaned, removed |-> rest.removed + sys]

\* lines 57-72 over ls[k:]: the lines kept and the count of the lines removed
RECURSIVE FilterFrom(_, _, _, _)
FilterFrom(ls, k, rs, ra) ==
  IF k > Len(ls) THEN [cleaned |-> <<>>, removed |-> 0]
  ELSE LET s == strip(ls[k])
           rest == FilterFrom(ls, k + 1, rs, ra)
       IN  IF s = <<>> THEN rest
           ELSE IF rs /\ IsSystemNoise(s)
             THEN [cleaned |-> rest.cleaned, removed |-> rest.removed + 1]
           ELSE IF ra /\ IsAttachment(s)
             THEN [cleaned |-> rest.cleaned, removed |-> rest.removed + 1]
           ELSE [cleaned |-> <<s>> \o rest.cleaned, removed |-> rest.removed]

\* lines 51-84: the locals lines and cleaned, and the (text, stats) returned
clean_whatsapp_text(raw, keep, rs, ra, pii) ==
  LET all == splitlines(raw)
      window == IF keep > 0 THEN LastN(all, keep) ELSE all
      f == FilterFrom(window, 1, rs, ra)
      joined == JoinLines(f.cleaned)
      masked == IF pii THEN mask_pii(joined) ELSE joined
  IN  [lines |-> window,
       cleaned |-> f.cleaned,
       text |-> masked,
       stats |-> [original_lines |-> Len(all),
                  kept_lines_window |-> Len(window),
                  removed_noise_lines |-> f.removed,
                  final_chars |-> Len(masked)]]

NoStats == [original_lines |-> 0, kept_lines_window |-> 0, removed_noise_lines |-> 0,
            final_chars |-> 0]

NoCleaning == [lines |-> <<>>, cleaned |-> <<>>, text |-> <<>>, stats |-> NoStats]

\* the lines a raw chat of the model is made of: blank, padded, system noise
\* in another case, an attachment marker, noise of both kinds, digits (two
\* such lines in a row read as a phone number once joined) and an e-mail
PreLines ==
  { <<" ", " ">>,
    <<" ", "h", "i", " ">>,
    <<"B", "o", "b", " ", "L", "E", "F", "T">>,
    <<"<", "M", "e", "d", "i", "a", " ", "o", "m", "i", "t", "t", "e", "d", ">">>,
    <<"a", "d", "d", "e", "d", ",", " ", "s", "e", "e", " ", "a", "t", "t", "a", "c", "h", "e", "d">>,
    <<"1", "2", "3", "4", "5">>,
    <<"a", "@", "b", ".", "c", "o">> }

RawTexts == {JoinLines(ls) : ls \in UNION {[1..k -> PreLines] : k \in 0..MaxLines}}

\* spec.md, end-to-end scenario: 10 lines, 3 missed calls and 2 blank
ScenarioText ==
  JoinLines(<< <<"h", "e", "l", "l", "o">>,
              <<"M", "i", "s", "s", "e", "d", " ", "v", "o", "i", "c", "e", " ", "c", "a", "l", "l">>,
              <<>>,
              <<"h", "o", "w", " ", "a", "r", "e", " ", "y", "o", "u">>,
              <<"1", "0", ":", "0", "2", " ", "M", "i", "s", "s", "e", "d", " ", "v", "o", "i", "c", "e", " ", "c", "a", "l", "l">>,
              <<"f", "i", "n", "e">>,
              <<" ", " ", " ">>,
              <<"s", "e", "e", " ", "y", "o", "u">>,
              <<"m", "i", "s", "s", "e", "d", " ", "v", "o", "i", "c", "e", " ", "c", "a", "l", "l">>,
              <<"b", "y", "e">> >>)

(***************************************************************************)
(* The parts of the program a specification does not run stay idle.        *)
(***************************************************************************)
ChunkIdle ==
  /\ text = <<>> /\ max_chars = 1
  /\ start = 0 /\ end = 0 /\ cut = 0
  /\ chunks = <<>>
  /\ pc = "idle"

JsonIdle == response = NoContent /\ ret = Raise(NoError) /\ json_pc = "idle"

SumIdle ==
  /\ clean_text = <<>> /\ sum_chunks = <<>> /\ i = 0
  /\ chunk_summaries = <<>> /\ calls = <<>>
  /\ final = NoValue /\ error = NoError
  /\ sum_pc = "idle"

PreIdle ==
  /\ raw_text = <<>> /\ keep_last_lines = 0
  /\ remove_system = FALSE /\ remove_attachments = FALSE /\ pii_mask = FALSE
  /\ lines = <<>> /\ cleaned = <<>> /\ out_text = <<>>
  /\ stats = NoStats /\ again = NoCleaning
  /\ pre_pc = "idle"

(***************************************************************************)
(* Specification SpecChunk: one call of _chunk_text, an iteration a step.  *)
(***************************************************************************)
InitChunk ==
  /\ text \in ChunkTexts
  /\ max_chars \in MaxCharsChoices
  /\ start = 0 /\ end = 0 /\ cut = 0
  /\ chunks = <<>>
  /\ pc = "line55"
  /\ api_key = TRUE /\ JsonIdle /\ SumIdle /\ PreIdle

\* lines 55-59
ChunkEntry ==
  /\ pc = "line55"
  /\ IF Len(text) <= max_chars
       THEN chunks' = <<text>> /\ pc' = "done"
       ELSE chunks' = <<>> /\ pc' = "line60"
  /\ start' = 0
  /\ UNCHANGED <<text, max_chars, end, cut>>
  /\ UNCHANGED <<api_key, jsonVars, sumVars, preVars>>

\* lines 60-66, one iteration
ChunkStep ==
  /\ pc = "line60"
  /\ start < Len(text)
  /\ end' = WindowEnd(text, start, max_chars)
  /\ cut' = CutAt(text, start, max_chars)
  /\ chunks' = Append(chunks, ChunkAt(text, start, cut'))
  /\ start' = cut'
  /\ UNCHANGED <<text, max_chars, pc>>
  /\ UNCHANGED <<api_key, jsonVars, sumVars, preVars>>

\* lines 60 and 68: the loop condition fails, return chunks
ChunkExit ==
  /\ pc = "line60"
  /\ ~(start < Len(text))
  /\ pc' = "done"
  /\ UNCHANGED <<text, max_chars, start, end, cut, chunks>>
  /\ UNCHANGED <<api_key, jsonVars, sumVars, preVars>>

NextChunk == ChunkEntry \/ ChunkStep \/ ChunkExit

SpecChunk == InitChunk /\ [][NextChunk]_vars

(***************************************************************************)
(* Specification SpecJson: one call of _call_openai_json.                  *)
(***************************************************************************)
\* every string over OutChars of at most MaxOutLen characters
OutTexts == UNION {[1..k -> OutChars] : k \in 0..MaxOutLen}

InitJson ==
  /\ api_key \in BOOLEAN
  /\ response \in {Unreachable, NoContent} \cup {Content(t) : t \in OutTexts}
  /\ ret = Raise(NoError)
  /\ json_pc = "line72"
  /\ ChunkIdle /\ SumIdle /\ PreIdle

\* one call of _call_openai_json
CallJson ==
  /\ json_pc = "line72"
  /\ ret' = call_openai_json(api_key, response)
  /\ json_pc' = IF ret'.ok THEN "returned" ELSE "raised"
  /\ UNCHANGED <<response, api_key, chunkVars, sumVars, preVars>>

NextJson == CallJson

SpecJson == InitJson /\ [][NextJson]_vars

(***************************************************************************)
(* Specification SpecSum: one call of summarize_whatsapp_hybrid, a         *)
(* provider call a step.                                                   *)
(***************************************************************************)
InitSum ==
  /\ clean_text \in SumTexts
  /\ api_key \in BOOLEAN
  /\ sum_chunks = <<>> /\ i = 0
  /\ chunk_summaries = <<>> /\ calls = <<>>
  /\ final = NoValue /\ error = NoError
  /\ sum_pc = "line108"
  /\ ChunkIdle /\ JsonIdle /\ PreIdle

\* lines 108-110
SumStart ==
  /\ sum_pc = "line108"
  /\ sum_chunks' = chunk_text(clean_text, ChunkMaxChars)
  /\ chunk_summaries' = <<>>
  /\ sum_pc' = "line111"
  /\ UNCHANGED <<clean_text, i, calls, final, error, api_key, chunkVars, jsonVars, preVars>>

\* lines 111-121 with a failed Map call skipped and the loop going on
SumMapSkipFailed ==
  /\ sum_pc = "line111"
  /\ i < Len(sum_chunks)
  /\ \E resp \in SumResponses :
       LET k == i + 1
           payload == MapPayload(k, Len(sum_chunks), sum_chunks[k])
           r == call_openai_json(api_key, resp)
       IN  /\ i' = k
           /\ calls' = IF api_key THEN Append(calls, ProviderCall("CHUNK_PROMPT", payload, resp))
                       ELSE calls
           /\ chunk_summaries' = IF r.ok THEN Accumulate(chunk_summaries, r.value)
                                 ELSE chunk_summaries
           /\ UNCHANGED <<error, sum_pc>>
  /\ UNCHANGED <<clean_text, sum_chunks, final, api_key, chunkVars, jsonVars, preVars>>

\* lines 111-121, one iteration: the Map call of chunk i
SumMap ==
  /\ sum_pc = "line111"
  /\ i < Len(sum_chunks)
  /\ \E resp \in SumResponses :
       LET k == i + 1
           payload == MapPayload(k, Len(sum_chunks), sum_chunks[k])
           r == call_openai_json(api_key, resp)
       IN  /\ i' = k
           /\ calls' = IF api_key THEN Append(calls, ProviderCall("CHUNK_PROMPT", payload, resp))
                       ELSE calls
           /\ IF r.ok
                THEN /\ chunk_summaries' = Accumulate(chunk_summaries, r.value)
                     /\ UNCHANGED <<error, sum_pc>>
                ELSE /\ error' = r.error
                     /\ sum_pc' = "raised"
                     /\ UNCHANGED chunk_summaries
  /\ UNCHANGED <<clean_text, sum_chunks, final, api_key, chunkVars, jsonVars, preVars>>

\* lines 123-125, once the loop is over: the Reduce call
SumReduce ==
  /\ sum_pc = "line111"
  /\ ~(i < Len(sum_chunks))
  /\ \E resp \in SumResponses :
       LET reduce_payload == DumpChunkSummaries(chunk_summaries)
           r == call_openai_json(api_key, resp)
       IN  /\ calls' = IF api_key THEN Append(calls, ProviderCall("REDUCE_PROMPT", reduce_payload, resp))
                       ELSE calls
           /\ IF r.ok
                THEN /\ final' = r.value
                     /\ sum_pc' = "returned"
                     /\ UNCHANGED error
                ELSE /\ error' = r.error
                     /\ sum_pc' = "raised"
                     /\ UNCHANGED final
  /\ UNCHANGED <<clean_text, sum_chunks, i, chunk_summaries, api_key, chunkVars, jsonVars, preVars>>

NextSum == SumStart \/ SumMap \/ SumReduce

SpecSum == InitSum /\ [][NextSum]_vars

(***************************************************************************)
(* Specification SpecPre: one call of clean_whatsapp_text, then a second   *)
(* call on the text the first returned, with the same configuration.       *)
(***************************************************************************)
InitPre ==
  /\ raw_text \in RawTexts \cup {ScenarioText}
  /\ keep_last_lines \in 0..MaxKeep
  /\ remove_system \in BOOLEAN
  /\ remove_attachments \in BOOLEAN
  /\ pii_mask \in BOOLEAN
  /\ lines = <<>> /\ cleaned = <<>> /\ out_text = <<>>
  /\ stats = NoStats /\ again = NoCleaning
  /\ pre_pc = "line51"
  /\ api_key = TRUE /\ ChunkIdle /\ JsonIdle /\ SumIdle

\* lines 51-84
Clean ==
  /\ pre_pc = "line51"
  /\ LET r == clean_whatsapp_text(raw_text, keep_last_lines, remove_system,
                                  remove_attachments, pii_mask)
     IN  /\ lines' = r.lines
         /\ cleaned' = r.cleaned
         /\ out_text' = r.text
         /\ stats' = r.stats
  /\ pre_pc' = "returned"
  /\ UNCHANGED <<preArgs, again, api_key, chunkVars, jsonVars, sumVars>>

\* lines 51-84 again, on the text returned
CleanAgain ==
  /\ pre_pc = "returned"
  /\ again' = clean_whatsapp_text(out_text, keep_last_lines, remove_system,
                                  remove_attachments, pii_mask)
  /\ pre_pc' = "returned2"
  /\ UNCHANGED <<preArgs, lines, cleaned, out_text, stats, api_key, chunkVars, jsonVars, sumVars>>

NextPre == Clean \/ CleanAgain

SpecPre == InitPre /\ [][NextPre]_vars

(***************************************************************************)
(* Claims about the chunker, checked under SpecChunk.                      *)
(***************************************************************************)
Last(ss) == ss[Len(ss)]

\* the loop of lines 60-66 ran (the early return of line 56 was not taken)
LoopRan == Len(text) > max_chars

\* the start of the chunk appended last
PrevStart == cut - Len(Last(chunks))

\* C1: when _chunk_text returns, the chunks concatenated in order are exactly
\* the input text, the newlines at which cuts were made included.
C1_RoundTrip == pc = "done" => Concat(chunks) = text

\* a return with a cut made at a newline: a chunk that starts with it
C1_Witness ==
  /\ pc = "done"
  /\ \E k \in 2..Len(chunks) : chunks[k] # <<>> /\ chunks[k][1] = NL /\ Len(chunks[k - 1]) < max_chars

\* C2: every chunk returned, except possibly the last, is at most max_chars
\* long, and an input of at most max_chars characters comes back as the one
\* chunk that is the whole input.
C2_ChunkBound ==
  pc = "done" =>
    /\ \A k \in 1..(Len(chunks) - 1) : Len(chunks[k]) <= max_chars
    /\ Len(text) <= max_chars => chunks = <<text>>

C2_Witness ==
  /\ pc = "done"
  /\ max_chars > MinCutOffset
  /\ Len(chunks) >= 3
  /\ Len(chunks[1]) = max_chars
  /\ Len(chunks[Len(chunks)]) < max_chars

\* C9: every iteration of the loop cuts strictly after start, so the chunk it
\* appends is non-empty and is text[start:cut], the next start is that cut
\* (increasing, no overlap, no gap); the loop is never stuck, and it returns
\* with start = len(text) after at most len(text) iterations.
C9_Progress ==
  /\ [][pc = "line60" /\ start < Len(text) =>
          /\ cut' > start
          /\ cut' <= Len(text)
          /\ start' = cut'
          /\ chunks' = Append(chunks, Slice(text, start, cut'))
          /\ Last(chunks') # <<>>
          /\ pc' = "line60"]_vars
  /\ [](pc = "line60" => Len(chunks) <= start /\ start <= Len(text))
  /\ [](pc = "line60" => ENABLED NextChunk)
  /\ [](pc = "done" /\ LoopRan => start = Len(text) /\ Len(chunks) <= Len(text))
  /\ [](pc = "done" /\ text # <<>> => \A k \in 1..Len(chunks) : chunks[k] # <<>>)

\* the loop returned after exactly len(text) iterations
C9_Witness ==
  /\ pc = "done"
  /\ LoopRan
  /\ Len(text) >= 3
  /\ Len(chunks) = Len(text)
  /\ start = Len(text)

\* C10: after an iteration that started at s with end = min(s + max_chars,
\* len(text)), cut is the last newline of [s, end) when one lies strictly
\* after s + 1000 and end otherwise; a chunk shorter than its window ends just
\* before a newline, which is the first character of the next chunk.
C10_BoundaryRule ==
  /\ pc = "line60" /\ chunks # <<>> =>
       LET s == PrevStart
           far == {p \in s..(end - 1) : text[p + 1] = NL /\ p > s + MinCutOffset}
       IN  /\ end = Min2(s + max_chars, Len(text))
           /\ cut = IF far # {} THEN Max(far) ELSE end
           /\ Last(chunks) = Slice(text, s, cut)
           /\ cut < end => text[cut + 1] = NL
  /\ pc = "done" /\ LoopRan =>
       \A k \in 1..(Len(chunks) - 1) :
         Len(chunks[k]) < max_chars => chunks[k + 1] # <<>> /\ chunks[k + 1][1] = NL

\* an iteration cut at a newline more than 1000 characters after its start
C10_Witness ==
  /\ pc = "line60"
  /\ chunks # <<>>
  /\ cut < end
  /\ cut > PrevStart + MinCutOffset
  /\ text[cut + 1] = NL

(***************************************************************************)
(* Claims about the JSON recovery layer, checked under SpecJson.           *)
(***************************************************************************)
\* neither the trimmed text nor its first-"{"-to-last-"}" span is valid JSON
NeitherParses(content) ==
  LET txt == strip(content)
  IN  /\ ~json_loads(txt).ok
      /\ ~(HasBraceSpan(txt) /\ json_loads(BraceSpan(txt)).ok)

\* C5: whenever neither the direct parse of the trimmed text nor the parse of
\* its brace span yields valid JSON, the call fails with an error that carries
\* the model text (in its message, as the ValueError of line 92 does, or as
\* the document of a decoding error).
C5_MalformedModelOutput ==
  json_pc # "line72" /\ api_key /\ response.kind = "text" /\ NeitherParses(response.content) =>
    /\ json_pc = "raised"
    /\ \/ ret.error.txt = <<strip(response.content)>>
       \/ ret.error.doc = <<strip(response.content)>>

(***************************************************************************)
(* Claims about the map/reduce driver, checked under SpecSum.              *)
(***************************************************************************)
\* what the call c, which reached the provider, returned or raised
Answered(c) == call_openai_json(TRUE, c.response)

IsReduceCall(c) == c.system_prompt = "REDUCE_PROMPT"

\* the Map call of some chunk failed: the loop stopped short of the last summary
MapFailed == sum_pc = "raised" /\ Len(chunk_summaries) < Len(sum_chunks)

\* C3: a Reduce call is issued only after the Map call of every chunk 1..n, in
\* chunk order, has returned a summary, and the array it carries holds those
\* n summaries, the i-th the one returned for chunk i.
C3_MapReduceOrder ==
  LET n == Len(sum_chunks)
  IN  /\ \A k \in 1..Len(calls) :
           ~IsReduceCall(calls[k]) =>
              /\ k <= n
              /\ calls[k].system_prompt = "CHUNK_PROMPT"
              /\ calls[k].user_content = MapPayload(k, n, sum_chunks[k])
      /\ \A k \in 1..Len(calls) :
           IsReduceCall(calls[k]) =>
              /\ k = n + 1
              /\ \A j \in 1..n : ~IsReduceCall(calls[j]) /\ Answered(calls[j]).ok
              /\ calls[k].user_content =
                   DumpChunkSummaries([j \in 1..n |-> Answered(calls[j]).value])
      /\ sum_pc # "line108" => sum_chunks = chunk_text(clean_text, ChunkMaxChars)

\* a Reduce call over three chunks whose summaries differ
C3_Witness ==
  /\ Len(sum_chunks) = 3
  /\ Len(calls) = 4
  /\ IsReduceCall(calls[4])
  /\ Answered(calls[1]).value # Answered(calls[3]).value

\* C4: a failed call is the last one issued and fails the request with its
\* error: after a failed Map call for chunk i no Map call for a later chunk and
\* no Reduce call is issued, and no result is returned; a failed Reduce call
\* fails the request too; a result is returned only when every call succeeded,
\* and it is what the Reduce call returned.
C4_FailWholeRequest ==
  LET n == Len(sum_chunks)
  IN  /\ \A k \in 1..Len(calls) :
           ~Answered(calls[k]).ok =>
              /\ k = Len(calls)
              /\ sum_pc = "raised"
              /\ error = Answered(calls[k]).error
      /\ sum_pc = "raised" =>
           /\ final = NoValue
           /\ error # NoError
           /\ IF api_key THEN calls # <<>> /\ ~Answered(calls[Len(calls)]).ok
              ELSE calls = <<>> /\ error = RuntimeErrorNoKey
      /\ MapFailed =>
           /\ Len(chunk_summaries) = i - 1
           /\ Len(calls) <= i
           /\ \A k \in 1..Len(calls) : ~IsReduceCall(calls[k])
      /\ sum_pc = "returned" =>
           /\ Len(calls) = n + 1
           /\ \A k \in 1..Len(calls) : Answered(calls[k]).ok
           /\ final = Answered(calls[n + 1]).value
           /\ error = NoError
      /\ sum_pc \in {"raised", "returned"} => ~ENABLED NextSum

\* the Map call of chunk 2 of 3 answered braces that hold no JSON
C4_Witness ==
  /\ MapFailed
  /\ Len(sum_chunks) = 3
  /\ i = 2
  /\ Len(calls) = 2
  /\ error.type = "JSONDecodeError"

\* the chunk index an exception names, 0 when it names none
ErrorChunkIndex(e) == IF "chunk" \in DOMAIN e THEN e.chunk ELSE 0

BlankLines == {k \in 1..Len(lines) : strip(lines[k]) = <<>>}

\* the non-blank lines of the kept window that an enabled filter discards
NoiseLines ==
  {k \in 1..Len(lines) :
     /\ strip(lines[k]) # <<>>
     /\ \/ remove_system /\ IsSystemNoise(strip(lines[k]))
        \/ remove_attachments /\ IsAttachment(strip(lines[k]))}

\* C7: removed_noise_lines is the number of non-blank lines of the kept window
\* that an enabled filter discards, each counted once; blank lines are
\* discarded and not counted, so the window is the blank, the removed and the
\* surviving lines; the text returned has no blank line; in the scenario of 10
\* lines with 3 missed calls and 2 blank lines, 3 are removed and 5 survive.
C7_NoiseAccounting ==
  pre_pc # "line51" =>
    LET blank == BlankLines
        noise == NoiseLines
        out_lines == splitlines(out_text)
    IN
    /\ lines = IF keep_last_lines > 0 THEN LastN(splitlines(raw_text), keep_last_lines)
               ELSE splitlines(raw_text)
    /\ stats.kept_lines_window = Len(lines)
    /\ stats.removed_noise_lines = Cardinality(noise)
    /\ stats.kept_lines_window = Cardinality(blank) + stats.removed_noise_lines + Len(cleaned)
    /\ cleaned = SelectSeq([k \in 1..Len(lines) |->
                              IF k \in blank \cup noise THEN <<>> ELSE strip(lines[k])],
                           LAMBDA l : l # <<>>)
    /\ \A k \in 1..Len(out_lines) : strip(out_lines[k]) # <<>>
    /\ raw_text = ScenarioText /\ keep_last_lines = 0 /\ remove_system /\ remove_attachments =>
         /\ stats.removed_noise_lines = 3
         /\ Len(cleaned) = 5
         /\ Len(out_lines) = 5

\* a window with a blank line, a line both filters match and a surviving line
C7_Witness ==
  /\ pre_pc = "returned"
  /\ remove_system /\ remove_attachments
  /\ Cardinality(BlankLines) = 1
  /\ stats.removed_noise_lines = 1
  /\ Len(cleaned) = 1
  /\ \E k \in NoiseLines : IsSystemNoise(strip(lines[k])) /\ IsAttachment(strip(lines[k]))

\* C8: a second run of clean_whatsapp_text, on the text the first returned
\* and with the same configuration, reports removed_noise_lines = 0.
C8_Idempotent == pre_pc = "returned2" => again.stats.removed_noise_lines = 0

\* a second run after a first that removed noise and masked a phone number
\* which spanned two lines
C8_Witness ==
  /\ pre_pc = "returned2"
  /\ remove_system /\ remove_attachments /\ pii_mask
  /\ stats.removed_noise_lines > 0
  /\ Contains(out_text, PHONE)
  /\ Len(splitlines(out_text)) < Len(cleaned)

====
